---- MODULE Spec2Model ----
(***************************************************************************)
(* scripts/quantize_model.py: one run of main().                           *)
(*                                                                         *)
(* The state is the environment the run meets (whether the quantization    *)
(* packages import, where the script lives, the files on disk, whether the *)
(* input file is a model the routine accepts), main()'s local variables,   *)
(* the lines printed so far, the calls made to the external routine, the   *)
(* paths main() has examined, and the exit status.                         *)
(*                                                                         *)
(* Paths are sequences of components (an absolute path from the file       *)
(* system root).  File sizes are bytes.  A printed number is kept as the   *)
(* integer the format produces: tenths of a MB for "{x:.1f}", whole        *)
(* percents for "{x:.0f}".                                                 *)
(*                                                                         *)
(* Taken from the environment as given: stdout accepts every line, no      *)
(* other process changes the files during the run, and what the routine    *)
(* raises is an Exception (not a KeyboardInterrupt or SystemExit).         *)
(*                                                                         *)
(* Definitions marked "variant" are faulty versions of the definition that *)
(* follows them, kept for mutation runs of the properties below.           *)
(***************************************************************************)
EXTENDS Integers, Sequences, FiniteSets, TLC

VARIABLES
    pc,             \* position of the run in main()
    status,         \* exit status of the process, NoStatus while running
    out,            \* lines printed so far (one record per print call)
    deps_installed, \* environment: onnxruntime and onnx can be imported
    script_file,    \* environment: os.path.abspath(__file__)
    fs,             \* environment: file path -> size in bytes (files that exist)
    input_valid,    \* environment: the input file is a model the routine accepts
    models_dir,     \* local of main()
    input_model,    \* local of main()
    output_model,   \* local of main()
    input_bytes,    \* os.path.getsize(input_model); input_size = input_bytes / MB
    output_bytes,   \* os.path.getsize(output_model); output_size = output_bytes / MB
    reduction,      \* local of main(), as "{reduction:.0f}" prints it
    exc,            \* the exception caught by `except Exception as e`
    calls,          \* calls of quantize_dynamic made so far
    examined        \* paths handed to os.path.exists / os.path.getsize so far

vars == <<pc, status, out, deps_installed, script_file, fs, input_valid,
          models_dir, input_model, output_model, input_bytes, output_bytes,
          reduction, exc, calls, examined>>

env == <<deps_installed, script_file, input_valid>>
locals == <<models_dir, input_model, output_model, input_bytes, output_bytes, reduction>>

----------------------------------------------------------------------------
(* Bounds of the model *)

\* file sizes range over k * SizeUnit + d, k in 0..MaxUnits, d in 0..MaxOffset
SizeUnit == 131072
MaxUnits == 40
MaxOffset == 1

Sizes == { k * SizeUnit + d : k \in 0..MaxUnits, d \in 0..MaxOffset }

\* size of an output file left by an earlier run
StaleSizes == { 3 * SizeUnit }

\* size of an output file the routine leaves half-written when it raises
PartialSizes == { SizeUnit }

\* places the repository may be checked out at
ProjectRoots == { <<"repo">>, <<"home", "dev", "MangaAutoScroller">> }

\* str(e) of what the external routine may raise
RoutineErrors == { "InvalidProtobuf", "No space left on device" }

----------------------------------------------------------------------------
(* Program constants *)

MB == 1048576

InputName == "comictextdetector.pt.onnx"
\* variant: the output is written over the input
OutputNameSame == "comictextdetector.pt.onnx"
OutputName == "comictextdetector_quantized.onnx"
ModelsSubdir == <<"app", "src", "main", "assets", "models">>
QUInt8 == "QUInt8"
ReleasesUrl == "https://github.com/zyddnys/manga-image-translator/releases"

NoStatus == -1
NoPath == <<>>
NoExc == [text |-> "", path |-> NoPath]
ZeroDivisionText == "float division by zero"
ENOENTText == "[Errno 2] No such file or directory"

----------------------------------------------------------------------------
(* os.path *)

dirname(p) == IF Len(p) = 0 THEN p ELSE SubSeq(p, 1, Len(p) - 1)
join(p, parts) == p \o parts
exists(f, p) == p \in DOMAIN f
getsize(f, p) == f[p]

----------------------------------------------------------------------------
(* Number formatting *)

\* n / d rounded to the nearest integer, ties to the even one (d > 0)
RoundHalfEven(n, d) ==
    LET q == n \div d
        r == n % d
    IN  IF 2 * r < d THEN q
        ELSE IF 2 * r > d THEN q + 1
        ELSE IF q % 2 = 0 THEN q ELSE q + 1

\* f"{bytes / (1024 * 1024):.1f}" as a number of tenths.  bytes / 2^20 is
\* exact in binary floating point and the format rounds the exact value.
FormatMB(bytes) == RoundHalfEven(bytes * 10, MB)

RECURSIVE GCD(_, _)
GCD(a, b) == IF b = 0 THEN a ELSE GCD(b, a % b)

RECURSIVE IsPowerOfTwo(_)
IsPowerOfTwo(n) == n = 1 \/ (n > 1 /\ n % 2 = 0 /\ IsPowerOfTwo(n \div 2))

\* output_size / input_size is exactly representable in binary floating point
ExactQuotient(o, i) == IsPowerOfTwo(i \div GCD(o, i))

\* f"{(1 - output_size / input_size) * 100:.0f}" for i > 0: the values the
\* format can print.  Away from a tie the floating-point error (a few units
\* in the 16th digit) cannot move the value across a rounding boundary for
\* files of these sizes.  At a tie with an exact quotient every step is exact
\* and the format rounds to even; at a tie with an inexact quotient the
\* rounding error of the division decides between the two neighbours.
\* variant: the quotient inverted
ReductionSwapped(o, i) ==
    IF o = 0 THEN {0} ELSE { RoundHalfEven(100 * (o - i), o) }
ReductionValues(o, i) ==
    LET n == 100 * (i - o)
        q == n \div i
    IN  IF 2 * (n % i) = i /\ ~ExactQuotient(o, i)
        THEN {q, q + 1}
        ELSE { RoundHalfEven(n, i) }

----------------------------------------------------------------------------
(* Printed lines *)

Line(tag, path, num, text) == [tag |-> tag, path |-> path, num |-> num, text |-> text]
Msg(tag) == Line(tag, NoPath, 0, "")
PathMsg(tag, path) == Line(tag, path, 0, "")
NumMsg(tag, num) == Line(tag, NoPath, num, "")
TextMsg(tag, text, path) == Line(tag, path, 0, text)


----------------------------------------------------------------------------
(* Initial state: the environment is chosen, nothing has run *)

InitialFiles(root) ==
    LET dir == join(root, ModelsSubdir)
        inp == join(dir, <<InputName>>)
        outp == join(dir, <<OutputName>>)
    IN  { [p \in {} |-> 0] }
        \cup { [p \in {inp} |-> s] : s \in Sizes }
        \cup { [p \in {outp} |-> t] : t \in StaleSizes }
        \cup { [p \in {inp, outp} |-> IF p = inp THEN s ELSE t] :
                 s \in Sizes, t \in StaleSizes }

Init ==
    /\ pc = "import"
    /\ status = NoStatus
    /\ out = <<>>
    /\ deps_installed \in BOOLEAN
    /\ \E root \in ProjectRoots :
         /\ script_file = join(root, <<"scripts", "quantize_model.py">>)
         /\ fs \in InitialFiles(root)
         /\ input_valid \in
              IF join(join(root, ModelsSubdir), <<InputName>>) \in DOMAIN fs
              THEN BOOLEAN ELSE {FALSE}
    /\ models_dir = NoPath
    /\ input_model = NoPath
    /\ output_model = NoPath
    /\ input_bytes = 0
    /\ output_bytes = 0
    /\ reduction = 0
    /\ exc = NoExc
    /\ calls = <<>>
    /\ examined = <<>>

----------------------------------------------------------------------------
(* Steps of main() *)

\* sys.exit(code); Exit(0) is main() returning, after which the interpreter
\* exits with status 0
\* variant: the status argument dropped
ExitZero(code) == /\ status' = 0
                  /\ pc' = "exited"
Exit(code) == /\ status' = code
              /\ pc' = "exited"

\* lines 16-18: the imports succeed
ImportDeps ==
    /\ pc = "import"
    /\ deps_installed
    /\ pc' = "paths"
    /\ UNCHANGED <<status, out, env, fs, locals, exc, calls, examined>>

\* lines 19-22: except ImportError
ImportErrorHandler ==
    /\ pc = "import"
    /\ ~deps_installed
    /\ out' = out \o << Msg("MissingPackages"), Msg("PipInstall") >>
    /\ Exit(1)
    /\ UNCHANGED <<env, fs, locals, exc, calls, examined>>

\* lines 25-26: script_dir, then project_root
\* variant: one dirname too few
ProjectRootIsScriptDir(file) == dirname(file)
ProjectRoot(file) == dirname(dirname(file))

ResolvePaths ==
    /\ pc = "paths"
    /\ LET dir == join(ProjectRoot(script_file), ModelsSubdir)
       IN  /\ models_dir' = dir
           /\ input_model' = join(dir, <<InputName>>)
           /\ output_model' = join(dir, <<OutputName>>)
    /\ pc' = "check"
    /\ UNCHANGED <<status, out, env, fs, input_bytes, output_bytes, reduction,
                   exc, calls, examined>>

\* line 33, condition false: the input exists
InputFound ==
    /\ pc = "check"
    /\ examined' = Append(examined, input_model)
    /\ exists(fs, input_model)
    /\ pc' = "size"
    /\ UNCHANGED <<status, out, env, fs, locals, exc, calls>>

\* lines 33-39: the input does not exist
\* variant: the download instructions left out
InputMissingLinesShort == << PathMsg("InputNotFound", input_model) >>
InputMissingLines ==
    << PathMsg("InputNotFound", input_model),
       Msg("PleaseDownload"),
       TextMsg("GoTo", ReleasesUrl, NoPath),
       TextMsg("Download", InputName, NoPath),
       PathMsg("PlaceIn", models_dir) >>

InputMissing ==
    /\ pc = "check"
    /\ examined' = Append(examined, input_model)
    /\ ~exists(fs, input_model)
    /\ out' = out \o InputMissingLines
    /\ Exit(1)
    /\ UNCHANGED <<env, fs, locals, exc, calls>>

\* lines 41-45
\* variant: the size line left out
ReportInputLinesNoSize(bytes) ==
    << PathMsg("InputModel", input_model), Msg("Quantizing") >>
ReportInputLines(bytes) ==
    << PathMsg("InputModel", input_model),
       NumMsg("InputSize", FormatMB(bytes)),
       Msg("Quantizing") >>

ReportInput ==
    /\ pc = "size"
    /\ examined' = Append(examined, input_model)
    /\ input_bytes' = getsize(fs, input_model)
    /\ out' = out \o ReportInputLines(getsize(fs, input_model))
    /\ pc' = "quantize"
    /\ UNCHANGED <<status, env, fs, models_dir, input_model, output_model,
                   output_bytes, reduction, exc, calls>>

\* lines 49-53: the external routine.  It is handed two paths and a weight
\* type; it raises, or returns after writing the quantized model to
\* model_output, or (a stand-in for the routine) returns having written
\* nothing.  It raises on an input that is missing or is not a model, and
\* may leave a half-written file at model_output when it raises.  It writes
\* to no path but model_output.
WriteFile(f, path, size) ==
    [p \in DOMAIN f \cup {path} |-> IF p = path THEN size ELSE f[p]]

QuantizeOutcomes(f, model_input, model_output, valid) ==
    { [result |-> "raised", text |-> e, files |-> f] : e \in RoutineErrors }
    \cup
    { [result |-> "raised", text |-> e, files |-> WriteFile(f, model_output, s)] :
        e \in RoutineErrors, s \in PartialSizes }
    \cup
    IF exists(f, model_input) /\ valid
    THEN { [result |-> "returned", text |-> "", files |-> WriteFile(f, model_output, s)] :
             s \in Sizes }
         \cup { [result |-> "returned", text |-> "", files |-> f] }
    ELSE {}

QuantizeArgs ==
    [model_input |-> input_model, model_output |-> output_model, weight_type |-> QUInt8]

\* where control goes when the routine raises: into `except Exception as e`
\* variant: the call is tried again
OnRaiseRetry == "quantize"
OnRaise == "except"

\* lines 47-53: try: quantize_dynamic(...)
QuantizeCall ==
    /\ pc = "quantize"
    /\ \E o \in QuantizeOutcomes(fs, QuantizeArgs.model_input,
                                 QuantizeArgs.model_output, input_valid) :
         /\ calls' = Append(calls, [args |-> QuantizeArgs, result |-> o.result,
                                     text |-> o.text])
         /\ fs' = o.files
         /\ IF o.result = "raised"
            THEN /\ exc' = [text |-> o.text, path |-> NoPath]
                 /\ pc' = OnRaise
            ELSE /\ exc' = exc
                 /\ pc' = "measure"
    /\ UNCHANGED <<status, out, env, locals, examined>>

\* line 55, inside the try: os.path.getsize(output_model)
MeasureOutput ==
    /\ pc = "measure"
    /\ examined' = Append(examined, output_model)
    /\ exists(fs, output_model)
    /\ output_bytes' = getsize(fs, output_model)
    /\ pc' = "reduce"
    /\ UNCHANGED <<status, out, env, fs, models_dir, input_model, output_model,
                   input_bytes, reduction, exc, calls>>

\* line 55 raises FileNotFoundError: no file at output_model
MeasureOutputFails ==
    /\ pc = "measure"
    /\ examined' = Append(examined, output_model)
    /\ ~exists(fs, output_model)
    /\ exc' = [text |-> ENOENTText, path |-> output_model]
    /\ pc' = "except"
    /\ UNCHANGED <<status, out, env, fs, locals, calls>>

\* line 56, inside the try
ComputeReduction ==
    /\ pc = "reduce"
    /\ input_bytes # 0
    /\ reduction' \in ReductionValues(output_bytes, input_bytes)
    /\ pc' = "report"
    /\ UNCHANGED <<status, out, env, fs, models_dir, input_model, output_model,
                   input_bytes, output_bytes, exc, calls, examined>>

\* line 56 raises ZeroDivisionError: input_size is 0.0
ComputeReductionFails ==
    /\ pc = "reduce"
    /\ input_bytes = 0
    /\ exc' = [text |-> ZeroDivisionText, path |-> NoPath]
    /\ pc' = "except"
    /\ UNCHANGED <<status, out, env, fs, locals, calls, examined>>

\* lines 58-62, then main() returns and the interpreter exits with status 0
\* variant: the input size printed as the output size
SuccessLinesInputSize ==
    << Msg("Complete"),
       PathMsg("OutputModel", output_model),
       NumMsg("OutputSize", FormatMB(input_bytes)),
       NumMsg("Reduction", reduction),
       Msg("AutoUse") >>
SuccessLines ==
    << Msg("Complete"),
       PathMsg("OutputModel", output_model),
       NumMsg("OutputSize", FormatMB(output_bytes)),
       NumMsg("Reduction", reduction),
       Msg("AutoUse") >>

ReportSuccess ==
    /\ pc = "report"
    /\ out' = out \o SuccessLines
    /\ Exit(0)
    /\ UNCHANGED <<env, fs, locals, exc, calls, examined>>

\* lines 64-66: except Exception as e
\* variant: the error text left out
FailureLinesNoText == << TextMsg("Failed", "", NoPath) >>
FailureLines == << TextMsg("Failed", exc.text, exc.path) >>

ExceptHandler ==
    /\ pc = "except"
    /\ out' = out \o FailureLines
    /\ Exit(1)
    /\ UNCHANGED <<env, fs, locals, exc, calls, examined>>

Next ==
    \/ ImportDeps
    \/ ImportErrorHandler
    \/ ResolvePaths
    \/ InputFound
    \/ InputMissing
    \/ ReportInput
    \/ QuantizeCall
    \/ MeasureOutput
    \/ MeasureOutputFails
    \/ ComputeReduction
    \/ ComputeReductionFails
    \/ ReportSuccess
    \/ ExceptHandler

Spec == Init /\ [][Next]_vars

----------------------------------------------------------------------------
(* Vocabulary of the properties.  The expected paths are written out from  *)
(* the repository layout, not taken from main()'s locals.                  *)

ExpectedRoot == SubSeq(script_file, 1, Len(script_file) - 2)
ExpectedModelsDir == ExpectedRoot \o <<"app", "src", "main", "assets", "models">>
ExpectedInput == ExpectedModelsDir \o <<"comictextdetector.pt.onnx">>
ExpectedOutput == ExpectedModelsDir \o <<"comictextdetector_quantized.onnx">>

Exited == pc = "exited"
InputExists == ExpectedInput \in DOMAIN fs
OutputExists == ExpectedOutput \in DOMAIN fs
LastCall == calls[Len(calls)]
RoutineReturned == calls # <<>> /\ LastCall.result = "returned"
RoutineRaised == calls # <<>> /\ LastCall.result = "raised"

HasLine(tag) == \E k \in 1..Len(out) : out[k].tag = tag
LineOf(tag) == out[CHOOSE k \in 1..Len(out) : out[k].tag = tag]
CountLines(tags) == Cardinality({ k \in 1..Len(out) : out[k].tag \in tags })
SuccessReportPrinted ==
    HasLine("Complete") /\ HasLine("OutputSize") /\ HasLine("Reduction")
RemediationPrinted ==
    /\ HasLine("PleaseDownload")
    /\ HasLine("GoTo") /\ LineOf("GoTo").text = ReleasesUrl
    /\ HasLine("Download")
    /\ HasLine("PlaceIn") /\ LineOf("PlaceIn").path = ExpectedModelsDir
TerminalTags == {"MissingPackages", "InputNotFound", "Failed", "Complete"}

----------------------------------------------------------------------------
\* C1: every run ends (a run that has not exited can take a step) with exit
\* status 0 or 1; the status is 1 when the packages cannot be imported, when
\* the input file does not exist, or when the quantization step fails; the
\* status is 0 only when the routine returned and the success report was
\* printed.
C1_ExitStatus ==
    /\ status \in {NoStatus, 0, 1}
    /\ Exited <=> status \in {0, 1}
    /\ ~Exited => ENABLED Next
    /\ Exited /\ ~deps_installed => status = 1
    /\ Exited /\ deps_installed /\ ~InputExists => status = 1
    /\ Exited /\ (RoutineRaised \/ HasLine("Failed")) => status = 1
    /\ status = 0 => RoutineReturned /\ SuccessReportPrinted

C1_Witness == Exited /\ status = 0 /\ RoutineReturned /\ SuccessReportPrinted

\* C2: with the imports succeeding and no file at
\* <root>/app/src/main/assets/models/comictextdetector.pt.onnx, the run
\* prints a message holding that path and exits with a non-zero status.
C2_MissingInputReported ==
    Exited /\ deps_installed /\ ~InputExists =>
        /\ status # 0
        /\ HasLine("InputNotFound")
        /\ LineOf("InputNotFound").path = ExpectedInput

C2_Witness ==
    /\ Exited /\ deps_installed /\ ~InputExists
    /\ HasLine("InputNotFound")
    /\ status = 1

\* C3 (as stated; its size half, in the runs that exit 0): given an existing
\* input file and a quantization call that returns without raising, the
\* output size the run prints is strictly less than the input size it
\* printed, for every pair of sizes.
C3_Original ==
    Exited /\ InputExists /\ RoutineReturned /\ status = 0 =>
        LineOf("OutputSize").num < LineOf("InputSize").num

\* the smallest whole number of bytes above a tenth of a MB
TenthOfMB == (MB + 9) \div 10

\* C3 (amended): given an existing input file and a quantization call that
\* returns without raising, the run exits with status 0 exactly when the
\* input file is not empty and a file is at the output path; in a run that
\* exits 0 the printed output size is strictly less than the printed input
\* size only if the output file is smaller than the input file, is never
\* greater when the output file is no larger, and is strictly less whenever
\* the output file is at least a tenth of a MB smaller.
C3_Amended ==
    Exited /\ InputExists /\ RoutineReturned =>
        /\ status = 0 <=> (fs[ExpectedInput] # 0 /\ OutputExists)
        /\ status = 0 =>
             LET i == fs[ExpectedInput]
                 o == fs[ExpectedOutput]
                 pin == LineOf("InputSize").num
                 pout == LineOf("OutputSize").num
             IN  /\ pout < pin => o < i
                 /\ o <= i => pout <= pin
                 /\ o + TenthOfMB <= i => pout < pin

C3_Witness ==
    /\ Exited /\ InputExists /\ RoutineReturned /\ status = 0
    /\ fs[ExpectedOutput] >= fs[ExpectedInput]
    /\ LineOf("OutputSize").num >= LineOf("InputSize").num

\* C4: if the quantization call raises, the run exits with a non-zero status,
\* the text of the raised error is printed, and no line of the success
\* report is printed.
C4_RaiseReported ==
    /\ RoutineRaised =>
         ~HasLine("Complete") /\ ~HasLine("OutputModel")
         /\ ~HasLine("OutputSize") /\ ~HasLine("Reduction")
    /\ Exited /\ RoutineRaised =>
         /\ status # 0
         /\ LastCall.text \in RoutineErrors
         /\ HasLine("Failed")
         /\ LineOf("Failed").text = LastCall.text

C4_Witness == Exited /\ RoutineRaised /\ HasLine("Failed") /\ status = 1

Abs(x) == IF x < 0 THEN -x ELSE x

\* C5: a printed reduction r is (1 - output_size / input_size) * 100 rounded
\* to a whole percent, i.e. r is within half a percent of that value, for the
\* sizes of the files at the output and input paths, a larger output
\* (negative reduction) included.
C5_ReductionValue ==
    HasLine("Reduction") =>
        /\ InputExists /\ OutputExists
        /\ LET i == fs[ExpectedInput]
               o == fs[ExpectedOutput]
               r == LineOf("Reduction").num
           IN  /\ i > 0
               /\ 2 * Abs(r * i - 100 * (i - o)) <= i

C5_Witness ==
    /\ HasLine("Reduction")
    /\ LineOf("Reduction").num < 0
    /\ fs[ExpectedOutput] > fs[ExpectedInput]

\* C6 (as stated): a missing input file and an invalid input file (present,
\* but not a model the routine accepts) are both reported with remediation
\* text (download instructions and target path) and a non-zero exit status.
C6_Original ==
    Exited /\ deps_installed /\ (~InputExists \/ ~input_valid) =>
        status # 0 /\ RemediationPrinted

\* C6 (amended): a missing input file is reported with remediation text and
\* a non-zero exit status; an invalid input file is reported with a non-zero
\* exit status and the routine's error text in the "Quantization failed"
\* line, without remediation text.
C6_Amended ==
    /\ Exited /\ deps_installed /\ ~InputExists =>
         status # 0 /\ RemediationPrinted /\ ~HasLine("Failed")
    /\ Exited /\ deps_installed /\ InputExists /\ ~input_valid =>
         /\ status # 0
         /\ HasLine("Failed") /\ LineOf("Failed").text \in RoutineErrors
         /\ ~HasLine("PleaseDownload") /\ ~HasLine("GoTo")
         /\ ~HasLine("Download") /\ ~HasLine("PlaceIn")

C6_Witness ==
    /\ Exited /\ deps_installed /\ InputExists /\ ~input_valid
    /\ HasLine("Failed") /\ ~HasLine("PlaceIn")

ExpectedArgs ==
    [model_input |-> ExpectedInput, model_output |-> ExpectedOutput,
     weight_type |-> "QUInt8"]

\* C7: the external routine is invoked at most once per run (no retry after
\* a failure); exactly once, with the input path, the output path and the
\* 8-bit unsigned weight type, when the imports succeed and the input file
\* exists; never when the dependency or the input file is missing.
C7_SingleCall ==
    /\ Len(calls) <= 1
    /\ \A k \in 1..Len(calls) : calls[k].args = ExpectedArgs
    /\ Exited /\ deps_installed /\ InputExists => Len(calls) = 1
    /\ ~deps_installed \/ ~InputExists => calls = <<>>

C7_Witness == Exited /\ RoutineRaised /\ Len(calls) = 1 /\ status = 1

\* the files that differ between two file systems
Changed(f, g) ==
    { p \in DOMAIN f \cup DOMAIN g :
        ~(p \in DOMAIN f /\ p \in DOMAIN g /\ f[p] = g[p]) }

\* C8: the source model file is read-only: the only path handed to the
\* routine for writing is <models>/comictextdetector_quantized.onnx, which
\* differs from the input path <models>/comictextdetector.pt.onnx in the same
\* directory; no step changes any file but the one at the output path; and
\* when the dependency or the input is missing no step changes any file.
C8_SourceReadOnly ==
    /\ [](\A k \in 1..Len(calls) :
            /\ calls[k].args.model_output = ExpectedOutput
            /\ calls[k].args.model_output # calls[k].args.model_input
            /\ calls[k].args.model_output # ExpectedInput
            /\ dirname(calls[k].args.model_output) = dirname(ExpectedInput))
    /\ [][/\ Changed(fs, fs') \subseteq {ExpectedOutput}
          /\ ExpectedOutput # ExpectedInput
          /\ ~deps_installed \/ ~InputExists => fs' = fs]_vars

C8_Witness ==
    /\ Exited /\ RoutineReturned
    /\ OutputExists /\ fs[ExpectedOutput] \notin StaleSizes
    /\ InputExists /\ fs[ExpectedInput] = input_bytes

\* C9 (as stated, for the runs in which the routine left a file at the
\* output path): whenever the routine returns without raising, the run
\* prints the output size and the percentage reduction and exits 0, for
\* every input file that exists, a zero-byte one included.
C9_ReturnReported ==
    Exited /\ InputExists /\ RoutineReturned /\ OutputExists =>
        status = 0 /\ HasLine("OutputSize") /\ HasLine("Reduction")

IsPrefix(a, b) == Len(a) <= Len(b) /\ a = SubSeq(b, 1, Len(a))

\* C10: the steps run in a fixed order with early abort.  With the dependency
\* missing no path is examined or printed; paths are examined in the order
\* input (exists), input (size), output (size); the input size is printed
\* before the routine is invoked and the output is measured only after it;
\* a run that is still going has printed no terminal outcome and a run that
\* has exited has printed exactly one of the four.
C10_FixedOrder ==
    /\ ~deps_installed =>
         examined = <<>> /\ calls = <<>>
         /\ \A k \in 1..Len(out) : out[k].path = NoPath
    /\ IsPrefix(examined, <<ExpectedInput, ExpectedInput, ExpectedOutput>>)
    /\ HasLine("InputNotFound") \/ HasLine("InputModel") => Len(examined) >= 1
    /\ HasLine("InputSize") => Len(examined) >= 2
    /\ calls # <<>> => HasLine("InputSize") /\ HasLine("Quantizing")
    /\ Len(examined) >= 3 => RoutineReturned
    /\ HasLine("Complete") => Len(examined) = 3
    /\ HasLine("Failed") => calls # <<>>
    /\ ~Exited => CountLines(TerminalTags) = 0
    /\ Exited => CountLines(TerminalTags) = 1

C10_Witness ==
    /\ Exited /\ ~deps_installed /\ InputExists
    /\ HasLine("MissingPackages") /\ examined = <<>>

====
